---- MODULE Spec2Model ----
(***************************************************************************)
(* Model of utils/dataset_utils.py of raw2logit: the tiling engine         *)
(* (split_img), the reassembly engine (join_blocks), the random-ROI        *)
(* sampler (random_ROI) and the cross-validation splitter (k_fold).        *)
(*                                                                         *)
(* An array is a record [kind, shape, data, exc]: kind is "ndarray" for a  *)
(* numpy array and "tensor" for a torch tensor, data is the content in     *)
(* C (row-major) order.  A raised exception is the record of kind "raise"  *)
(* carrying the exception's class in exc; Python's None is kind "None".    *)
(***************************************************************************)
EXTENDS Integers, Sequences, FiniteSets, TLC

VARIABLES fn, pc, args, locals, ret

vars == <<fn, pc, args, locals, ret>>

(***************************************************************************)
(* Bounds of the explored inputs.                                          *)
(***************************************************************************)
MaxDim == 4
MaxWide == 4
MaxFinal == 4
MaxROI == 2
MaxStep == 2
MaxBatch == 2
MaxChannels == 2
MaxBlocks == 4
MaxLen == 3
MaxSplits == 2
MaxSeed == 1
TrainDen == 4
MaxArity == 3
MaxData == 2
MaxTrainLen == 2
MaxFolds == 2

(***************************************************************************)
(* Values.                                                                 *)
(***************************************************************************)
ndarray(shape, data) == [kind |-> "ndarray", shape |-> shape, data |-> data, exc |-> ""]

tensor(shape, data) == [kind |-> "tensor", shape |-> shape, data |-> data, exc |-> ""]

Raise(e) == [kind |-> "raise", shape |-> <<>>, data |-> <<>>, exc |-> e]

None == [kind |-> "None", shape |-> <<>>, data |-> <<>>, exc |-> ""]

NoArgs == [none |-> TRUE]

RECURSIVE Prod(_)
Prod(s) == IF s = <<>> THEN 1 ELSE Head(s) * Prod(Tail(s))

RECURSIVE SumSeq(_)
SumSeq(s) == IF s = <<>> THEN 0 ELSE Head(s) + SumSeq(Tail(s))

\* number of elements one step along axis k skips in C order
Stride(shape, k) == Prod(SubSeq(shape, k + 1, Len(shape)))

Strides(shape) == [k \in 1..Len(shape) |-> Stride(shape, k)]

\* multi-index of the 0-based flat position p in an array of the given
\* shape and strides
Unravel(p, shape, st) == [k \in 1..Len(shape) |-> (p \div st[k]) % shape[k]]

\* 0-based flat position of the multi-index ix
Ravel(ix, st) == SumSeq([k \in 1..Len(st) |-> ix[k] * st[k]])

\* element of array a, of strides st, at the 0-based multi-index ix
At(a, st, ix) == a.data[1 + Ravel(ix, st)]

\* conversion of an integer pixel value to single precision (round to
\* nearest, ties to even); exact up to 2^24, even numbers up to 2^25
Float32(v) ==
    IF v <= 2^24 THEN v
    ELSE IF v % 2 = 0 THEN v
    ELSE IF (v - 1) % 4 = 0 THEN v - 1
    ELSE v + 1

(***************************************************************************)
(* skimage.util.shape.view_as_windows, as split_img calls it.              *)
(***************************************************************************)
\* a window count that leaves out the first placement
win_indices_shape_nooffset(arr_shape, window_shape, st) ==
    [k \in 1..Len(arr_shape) |-> ((arr_shape[k] - window_shape[k]) \div st[k])]

win_indices_shape(arr_shape, window_shape, st) ==
    [k \in 1..Len(arr_shape) |-> ((arr_shape[k] - window_shape[k]) \div st[k]) + 1]

\* a column-major traversal of the window positions of the last two
\* sliding axes
window_view_colmajor(arr_in, window_shape, st) ==
    LET n == Len(arr_in.shape)
        shp == win_indices_shape(arr_in.shape, window_shape, st) \o window_shape
        sst == Strides(shp)
        ast == Strides(arr_in.shape)
        a == IF n = 2 THEN 1 ELSE 2
        b == a + 1
    IN  ndarray(shp, [p \in 1..Prod(shp) |->
            LET ix == Unravel(p - 1, shp, sst)
                q == ix[a] * shp[b] + ix[b]
                jx == [k \in 1..Len(shp) |->
                         IF k = a THEN q % shp[a]
                         ELSE IF k = b THEN q \div shp[a]
                         ELSE ix[k]]
            IN  At(arr_in, ast, [k \in 1..n |-> jx[k] * st[k] + jx[n + k]])])

\* the window array: element (I, A) is arr_in[I * step + A]
window_view(arr_in, window_shape, st) ==
    LET n == Len(arr_in.shape)
        shp == win_indices_shape(arr_in.shape, window_shape, st) \o window_shape
        sst == Strides(shp)
        ast == Strides(arr_in.shape)
    IN  ndarray(shp, [p \in 1..Prod(shp) |->
            LET ix == Unravel(p - 1, shp, sst)
            IN  At(arr_in, ast, [k \in 1..n |-> ix[k] * st[k] + ix[n + k]])])

\* a window array that is empty, instead of an error, when the window is
\* larger than the array along an axis
view_as_windows_nosizecheck(arr_in, window_shape, st) ==
    IF Len(window_shape) # Len(arr_in.shape) \/ Len(st) # Len(arr_in.shape)
    THEN Raise("ValueError")
    ELSE IF \E k \in 1..Len(st) : st[k] < 1
    THEN Raise("ValueError")
    ELSE IF \E k \in 1..Len(window_shape) : arr_in.shape[k] - window_shape[k] < 0
    THEN ndarray([k \in 1..Len(window_shape) |-> 0] \o window_shape, <<>>)
    ELSE IF \E k \in 1..Len(window_shape) : window_shape[k] - 1 < 0
    THEN Raise("ValueError")
    ELSE window_view(arr_in, window_shape, st)

view_as_windows(arr_in, window_shape, st) ==
    IF Len(window_shape) # Len(arr_in.shape) \/ Len(st) # Len(arr_in.shape)
    THEN Raise("ValueError")
    ELSE IF \E k \in 1..Len(st) : st[k] < 1
    THEN Raise("ValueError")
    ELSE IF \E k \in 1..Len(window_shape) : arr_in.shape[k] - window_shape[k] < 0
    THEN Raise("ValueError")
    ELSE IF \E k \in 1..Len(window_shape) : window_shape[k] - 1 < 0
    THEN Raise("ValueError")
    ELSE window_view(arr_in, window_shape, st)

\* ndarray.reshape((-1,) + rest): the content in C order under a new shape
reshape(a, rest) ==
    IF a.kind = "raise" THEN a
    ELSE IF Prod(rest) = 0 \/ Len(a.data) % Prod(rest) # 0 THEN Raise("ValueError")
    ELSE ndarray(<<Len(a.data) \div Prod(rest)>> \o rest, a.data)

(***************************************************************************)
(* split_img                                                               *)
(***************************************************************************)
\* a channel test that takes a 3-channel image for a stack of images
split_img_below3(imgs, ROIs, step) ==
    IF Len(ROIs) > 2 THEN None
    ELSE IF Len(step) > 2 THEN None
    ELSE IF imgs.kind # "ndarray" THEN None
    ELSE IF Len(imgs.shape) \notin {2, 3, 4} THEN None
    ELSE IF Len(ROIs) < 2 \/ Len(step) < 2 THEN Raise("IndexError")
    ELSE IF Len(imgs.shape) = 2
    THEN reshape(view_as_windows(imgs, <<ROIs[1], ROIs[2]>>, <<step[1], step[2]>>),
                 <<ROIs[1], ROIs[2]>>)
    ELSE IF Len(imgs.shape) = 3
    THEN LET channels == imgs.shape[3]
         IN  IF channels < 3
             THEN reshape(view_as_windows(imgs, <<ROIs[1], ROIs[2], channels>>,
                                          <<step[1], step[2], channels>>),
                          <<ROIs[1], ROIs[2], channels>>)
             ELSE reshape(view_as_windows(imgs, <<1, ROIs[1], ROIs[2]>>,
                                          <<1, step[1], step[2]>>),
                          <<ROIs[1], ROIs[2]>>)
    ELSE LET channels == imgs.shape[4]
         IN  reshape(view_as_windows(imgs, <<1, ROIs[1], ROIs[2], channels>>,
                                     <<1, step[1], step[2], channels>>),
                     <<ROIs[1], ROIs[2], channels>>)

split_img(imgs, ROIs, step) ==
    IF Len(ROIs) > 2 THEN None
    ELSE IF Len(step) > 2 THEN None
    ELSE IF imgs.kind # "ndarray" THEN None
    ELSE IF Len(imgs.shape) \notin {2, 3, 4} THEN None
    ELSE IF Len(ROIs) < 2 \/ Len(step) < 2 THEN Raise("IndexError")
    ELSE IF Len(imgs.shape) = 2
    THEN reshape(view_as_windows(imgs, <<ROIs[1], ROIs[2]>>, <<step[1], step[2]>>),
                 <<ROIs[1], ROIs[2]>>)
    ELSE IF Len(imgs.shape) = 3
    THEN LET channels == imgs.shape[3]
         IN  IF channels <= 3
             THEN reshape(view_as_windows(imgs, <<ROIs[1], ROIs[2], channels>>,
                                          <<step[1], step[2], channels>>),
                          <<ROIs[1], ROIs[2], channels>>)
             ELSE reshape(view_as_windows(imgs, <<1, ROIs[1], ROIs[2]>>,
                                          <<1, step[1], step[2]>>),
                          <<ROIs[1], ROIs[2]>>)
    ELSE LET channels == imgs.shape[4]
         IN  reshape(view_as_windows(imgs, <<1, ROIs[1], ROIs[2], channels>>,
                                     <<1, step[1], step[2], channels>>),
                     <<ROIs[1], ROIs[2], channels>>)

(***************************************************************************)
(* join_blocks                                                             *)
(***************************************************************************)
\* the layout join_blocks documents for its input, (N_blocks, Channels,
\* Height, Width) as a torch tensor, applied to a block sequence that
\* split_img returned ((N,h,w) or (N,h,w,C))
as_block_tensor(blocks) ==
    IF Len(blocks.shape) = 3
    THEN tensor(<<blocks.shape[1], 1, blocks.shape[2], blocks.shape[3]>>, blocks.data)
    ELSE LET shp == <<blocks.shape[1], blocks.shape[4], blocks.shape[2], blocks.shape[3]>>
             sst == Strides(shp)
             bst == Strides(blocks.shape)
         IN  tensor(shp, [p \in 1..Prod(shp) |->
                 LET ix == Unravel(p - 1, shp, sst)
                 IN  At(blocks, bst, <<ix[1], ix[3], ix[4], ix[2]>>)])

\* splitted[k]
Block(splitted, k) ==
    LET shp == Tail(splitted.shape)
    IN  [kind |-> splitted.kind, shape |-> shp, exc |-> "",
         data |-> SubSeq(splitted.data, k * Prod(shp) + 1, (k + 1) * Prod(shp))]

\* a concatenation that puts the second operand first
Cat_reversed(a, b, axis) ==
    LET shp == [k \in 1..3 |-> IF k = axis + 1 THEN a.shape[k] + b.shape[k] ELSE a.shape[k]]
        sst == Strides(shp)
        ast == Strides(a.shape)
        bst == Strides(b.shape)
    IN  tensor(shp, [p \in 1..Prod(shp) |->
            LET ix == Unravel(p - 1, shp, sst)
            IN  IF ix[axis + 1] < b.shape[axis + 1]
                THEN At(b, bst, ix)
                ELSE At(a, ast, [k \in 1..3 |-> IF k = axis + 1
                                           THEN ix[k] - b.shape[k] ELSE ix[k]])])

\* torch.cat((a, b), axis) of two 3-D tensors (axis counted from 0)
Cat(a, b, axis) ==
    LET shp == [k \in 1..3 |-> IF k = axis + 1 THEN a.shape[k] + b.shape[k] ELSE a.shape[k]]
        sst == Strides(shp)
        ast == Strides(a.shape)
        bst == Strides(b.shape)
    IN  tensor(shp, [p \in 1..Prod(shp) |->
            LET ix == Unravel(p - 1, shp, sst)
            IN  IF ix[axis + 1] < a.shape[axis + 1]
                THEN At(a, ast, ix)
                ELSE At(b, bst, [k \in 1..3 |-> IF k = axis + 1
                                           THEN ix[k] - a.shape[k] ELSE ix[k]])])

\* a row filled from its right end
GridBlock_mirrored(splitted, r, c, columns) == Block(splitted, r * columns + (columns - 1 - c))

\* the block joined at grid position (r, c)
GridBlock(splitted, r, c, columns) == Block(splitted, r * columns + c)

\* stackblocks after the inner loop has run up to column c
RECURSIVE StackBlocks(_, _, _, _)
StackBlocks(splitted, r, c, columns) ==
    IF c = 0 THEN GridBlock(splitted, r, 0, columns)
    ELSE Cat(StackBlocks(splitted, r, c - 1, columns), GridBlock(splitted, r, c, columns), 2)

\* final_img[r] = stackblocks: the copy into the float32 buffer
FinalRow(splitted, r, columns) ==
    LET sb == StackBlocks(splitted, r, IF columns > 0 THEN columns - 1 ELSE 0, columns)
        shp == <<sb.shape[1], sb.shape[2], splitted.shape[4] * columns>>
    IN  tensor(shp, [p \in 1..Prod(shp) |-> Float32(sb.data[p])])

\* joined_img after the last loop has run up to row i
RECURSIVE JoinRows(_, _, _)
JoinRows(splitted, i, columns) ==
    IF i = 0 THEN FinalRow(splitted, 0, columns)
    ELSE Cat(JoinRows(splitted, i - 1, columns), FinalRow(splitted, i, columns), 1)

join_blocks(splitted, final_shape) ==
    IF Len(splitted.shape) # 4 THEN Raise("ValueError")
    ELSE LET n_blocks == splitted.shape[1]
             ROI_height == splitted.shape[3]
             ROI_width == splitted.shape[4]
         IN  IF ROI_height = 0 \/ ROI_width = 0 THEN Raise("ZeroDivisionError")
             ELSE LET rows == final_shape[1] \div ROI_height
                      columns == final_shape[2] \div ROI_width
                      last == (rows - 1) * columns + (IF columns > 0 THEN columns - 1 ELSE 0)
                  IN  IF rows = 0 THEN Raise("IndexError")
                      ELSE IF n_blocks = 0 THEN Raise("IndexError")
                      ELSE IF splitted.kind # "tensor"
                      THEN (IF columns > 1 /\ n_blocks < 2
                            THEN Raise("IndexError") ELSE Raise("TypeError"))
                      ELSE IF last >= n_blocks THEN Raise("IndexError")
                      ELSE IF columns = 0 /\ ROI_width # 1 THEN Raise("RuntimeError")
                      ELSE JoinRows(splitted, rows - 1, columns)

(***************************************************************************)
(* Inputs of the tiling and reassembly engines.                            *)
(***************************************************************************)
\* an image whose pixel at flat position p holds base + p, so that every
\* pixel is told apart; base 2^24 gives values single precision cannot hold
Bases == {0, 2^24}

Image(shape, base) == ndarray(shape, [p \in 1..Prod(shape) |-> base + p - 1])

BlockTensor(shape, base) == tensor(shape, [p \in 1..Prod(shape) |-> base + p - 1])

Dims == 1..MaxDim

\* 2-D images, among them the 6 x 6 one
Shapes2D == {<<H, W>> : H \in Dims, W \in Dims} \cup {<<6, 6>>}

\* 3-D inputs (last axis up to MaxWide) and 4-D batches
ShapesND ==
    {<<H, W, C>> : H \in Dims, W \in Dims, C \in 1..MaxWide}
    \cup {<<B, H, W, C>> : B \in 1..MaxBatch, H \in Dims, W \in Dims, C \in 1..MaxChannels}

Images ==
    {Image(shape, base) : shape \in Shapes2D, base \in Bases}
    \cup {Image(shape, 0) : shape \in ShapesND}

Tuples(n) == {<<a, b>> : a \in 1..n, b \in 1..n}

BlockShapes ==
    {<<N, C, bh, bw>> : N \in 0..MaxBlocks, C \in 1..MaxChannels,
                        bh \in 1..MaxROI, bw \in 1..MaxROI}

FinalShapes == {<<FH, FW>> : FH \in 0..MaxFinal, FW \in 0..MaxFinal}

(***************************************************************************)
(* Calls of the tiling and reassembly engines.                             *)
(***************************************************************************)
Init ==
    /\ fn = "none"
    /\ pc = "idle"
    /\ args = NoArgs
    /\ locals = NoArgs
    /\ ret = None

\* blocks = split_img(imgs, ROIs, step)
SplitImg ==
    /\ pc = "idle"
    /\ fn = "none"
    /\ \E imgs \in Images, ROIs \in Tuples(MaxROI), step \in Tuples(MaxStep) :
          /\ args' = [imgs |-> imgs, ROIs |-> ROIs, step |-> step]
          /\ ret' = split_img(imgs, ROIs, step)
    /\ fn' = "split_img"
    /\ UNCHANGED <<pc, locals>>

\* join_blocks(splitted, final_shape) on a block tensor of the documented
\* layout
JoinBlocks ==
    /\ pc = "idle"
    /\ fn = "none"
    /\ \E shape \in BlockShapes, base \in Bases, final_shape \in FinalShapes :
          LET splitted == BlockTensor(shape, base)
          IN  /\ args' = [splitted |-> splitted, final_shape |-> final_shape,
                          image |-> None, ROIs |-> <<>>, step |-> <<>>]
              /\ ret' = join_blocks(splitted, final_shape)
    /\ fn' = "join_blocks"
    /\ UNCHANGED <<pc, locals>>

\* join_blocks(split_img(image, ROIs, step), image.shape): the blocks just
\* returned by split_img are joined, either as returned (direct) or after
\* being brought to the documented layout
JoinSplitted(direct) ==
    /\ pc = "idle"
    /\ fn = "split_img"
    /\ ret.kind = "ndarray"
    /\ fn' = "join_blocks"
    /\ LET splitted == IF direct THEN ret ELSE as_block_tensor(ret)
       IN  /\ args' = [splitted |-> splitted, final_shape |-> args.imgs.shape,
                       image |-> args.imgs, ROIs |-> args.ROIs, step |-> args.step]
           /\ ret' = join_blocks(splitted, args.imgs.shape)
    /\ UNCHANGED <<pc, locals>>

NextTiling ==
    \/ SplitImg
    \/ JoinBlocks
    \/ \E direct \in BOOLEAN : JoinSplitted(direct)

SpecTiling == Init /\ [][NextTiling]_vars

\* block-size and step arguments of any length up to MaxArity, every entry
\* the same value
ArityTuples(n) == {[i \in 1..k |-> v] : k \in 0..MaxArity, v \in 1..n}

\* arguments that are no image stack: 1-D arrays and a torch tensor
OtherImgs == {Image(<<n>>, 0) : n \in Dims} \cup {BlockTensor(<<2, 2>>, 0)}

\* blocks = split_img(imgs, ROIs, step) with ROIs and step of any length
SplitImgAnyArgs ==
    /\ pc = "idle"
    /\ fn = "none"
    /\ \E imgs \in Images \cup OtherImgs,
          ROIs \in Tuples(MaxROI) \cup ArityTuples(MaxROI),
          step \in Tuples(MaxStep) \cup ArityTuples(MaxStep) :
          /\ args' = [imgs |-> imgs, ROIs |-> ROIs, step |-> step]
          /\ ret' = split_img(imgs, ROIs, step)
    /\ fn' = "split_img"
    /\ UNCHANGED <<pc, locals>>

NextSplitArgs == SplitImgAnyArgs

SpecSplitArgs == Init /\ [][NextSplitArgs]_vars

(***************************************************************************)
(* k_fold                                                                  *)
(*                                                                         *)
(* A dataset is [task, len]; train_size is the fraction num/den.  The      *)
(* branch on dataset.task = 'classification' calls StratifiedShuffleSplit, *)
(* a name the module never imports or defines, so that the lookup raises   *)
(* NameError before the arguments x, y (lines 46-51) are read.             *)
(***************************************************************************)
list(elems) == [kind |-> "list", shape |-> <<Len(elems)>>, data |-> elems, exc |-> ""]

Tasks == {"classification", "segmentation", "detection"}

Datasets == {[task |-> t, len |-> l] : t \in Tasks, l \in 0..MaxLen}

TrainSizes == {[num |-> k, den |-> TrainDen] : k \in 0..TrainDen}

\* the results np.random.permutation(n) can give
permutation(n) ==
    {q \in [1..n -> 0..(n - 1)] : \A i, j \in 1..n : q[i] = q[j] => i = j}

\* a cut rounded up
split_idx_ceil(len, train_size) == (len * train_size.num + train_size.den - 1) \div train_size.den

\* int(len(dataset) * train_size)
split_idx(len, train_size) == (len * train_size.num) \div train_size.den

\* a validation part that starts one index early
FoldPair_overlap(indices, split) ==
    <<SubSeq(indices, 1, split),
      SubSeq(indices, IF split > 0 THEN split ELSE 1, Len(indices))>>

\* (indices[:split_idx].tolist(), indices[split_idx:].tolist())
FoldPair(indices, split) ==
    <<SubSeq(indices, 1, split), SubSeq(indices, split + 1, Len(indices))>>

\* k_fold up to its branch on dataset.task
KFoldEnter(dataset, n_splits, seed, train_size, prev) ==
    /\ fn' = "k_fold"
    /\ args' = [dataset |-> dataset, n_splits |-> n_splits, seed |-> seed,
                train_size |-> train_size, prev |-> prev]
    /\ IF dataset.task = "classification"
       THEN /\ pc' = "idle"
            /\ locals' = [idxs |-> <<>>, n |-> 0, indices |-> <<>>]
            /\ ret' = Raise("NameError")
       ELSE IF dataset.task = "segmentation"
       THEN /\ pc' = "k_fold_for"
            /\ locals' = [idxs |-> <<>>, n |-> 0, indices |-> <<>>]
            /\ ret' = None
       ELSE /\ pc' = "idle"
            /\ locals' = [idxs |-> <<>>, n |-> 0, indices |-> <<>>]
            /\ ret' = list(<<>>)

\* idxs_kfold = k_fold(dataset, n_splits, seed, train_size)
KFoldCall ==
    /\ pc = "idle"
    /\ fn = "none"
    /\ \E dataset \in Datasets, n_splits \in 0..MaxSplits, seed \in 0..MaxSeed,
          train_size \in TrainSizes :
          KFoldEnter(dataset, n_splits, seed, train_size, None)

\* one pass of "for n in range(n_splits)"
KFoldIter ==
    /\ pc = "k_fold_for"
    /\ locals.n < args.n_splits
    /\ \E indices \in permutation(args.dataset.len) :
          locals' = [idxs |-> Append(locals.idxs,
                                     FoldPair(indices, split_idx(args.dataset.len, args.train_size))),
                     n |-> locals.n + 1,
                     indices |-> indices]
    /\ UNCHANGED <<fn, pc, args, ret>>

\* return idxs
KFoldReturn ==
    /\ pc = "k_fold_for"
    /\ locals.n = args.n_splits
    /\ pc' = "idle"
    /\ ret' = list(locals.idxs)
    /\ UNCHANGED <<fn, args, locals>>

\* a second invocation with the arguments of the first, whose outcome is
\* kept in args.prev
KFoldAgain ==
    /\ pc = "idle"
    /\ fn = "k_fold"
    /\ args.prev.kind = "None"
    /\ KFoldEnter(args.dataset, args.n_splits, args.seed, args.train_size, ret)

NextKFold ==
    \/ KFoldCall
    \/ KFoldIter
    \/ KFoldReturn

SpecKFold == Init /\ [][NextKFold]_vars

NextKFoldTwice == NextKFold \/ KFoldAgain

SpecKFoldTwice == Init /\ [][NextKFoldTwice]_vars

(***************************************************************************)
(* random_ROI                                                              *)
(*                                                                         *)
(* X and Y are batches of shape (B,H,W,C).  Line 164 unpacks X.shape into  *)
(* batch, channels, height, width, in this order.                          *)
(***************************************************************************)
tuple(elems) == [kind |-> "tuple", shape |-> <<Len(elems)>>, data |-> elems, exc |-> ""]

\* a row of np.empty(...) that nothing was assigned to yet
Uninit == [kind |-> "uninitialized", shape |-> <<>>, data |-> <<>>, exc |-> ""]

\* the values int(random.random() * n) can take: random.random() lies in
\* [0, 1) and int() truncates toward zero
RandomInt(n) ==
    IF n > 0 THEN 0..(n - 1)
    ELSE IF n = 0 THEN {0}
    ELSE (n + 1)..0

\* a bound of a slice on an axis of length n, as Python normalises it
PyIndex(v, n) ==
    IF v < 0 THEN (IF v + n < 0 THEN 0 ELSE v + n)
    ELSE IF v > n THEN n ELSE v

SliceLen(start, stop, n) ==
    IF PyIndex(stop, n) > PyIndex(start, n) THEN PyIndex(stop, n) - PyIndex(start, n) ELSE 0

\* A[i, x_size:x_size + ROIs[0], y_size:y_size + ROIs[1], :]
Crop(A, i, x_size, y_size, ROIs) ==
    LET r0 == PyIndex(x_size, A.shape[2])
        c0 == PyIndex(y_size, A.shape[3])
        shp == <<SliceLen(x_size, x_size + ROIs[1], A.shape[2]),
                 SliceLen(y_size, y_size + ROIs[2], A.shape[3]),
                 A.shape[4]>>
        sst == Strides(shp)
        ast == Strides(A.shape)
    IN  ndarray(shp, [p \in 1..Prod(shp) |->
            LET ix == Unravel(p - 1, shp, sst)
            IN  At(A, ast, <<i, r0 + ix[1], c0 + ix[2], ix[3]>>)])

\* X[i, x_size:x_size + ROIs[0], y_size:y_size + ROIs[1], :]
crop_X(X, i, x_size, y_size, ROIs) == Crop(X, i, x_size, y_size, ROIs)

\* a target crop taken at the transposed offset
crop_Y_swapped(Y, i, x_size, y_size, ROIs) == Crop(Y, i, y_size, x_size, ROIs)

\* Y[i, x_size:x_size + ROIs[0], y_size:y_size + ROIs[1], :]
crop_Y(Y, i, x_size, y_size, ROIs) == Crop(Y, i, x_size, y_size, ROIs)

\* numpy's rule for the assignment X_cut[i] = src
CanBroadcast(src_shape, dst_shape) ==
    /\ Len(src_shape) = Len(dst_shape)
    /\ \A k \in 1..Len(dst_shape) : src_shape[k] = dst_shape[k] \/ src_shape[k] = 1

BroadcastTo(src, dst_shape) ==
    LET dst == Strides(dst_shape)
        sst == Strides(src.shape)
    IN  ndarray(dst_shape, [p \in 1..Prod(dst_shape) |->
            LET ix == Unravel(p - 1, dst_shape, dst)
            IN  At(src, sst, [k \in 1..Len(dst_shape) |->
                                 IF src.shape[k] = 1 THEN 0 ELSE ix[k]])])

\* the array whose rows are the arrays of the sequence rows
RECURSIVE Flatten(_)
Flatten(rows) == IF rows = <<>> THEN <<>> ELSE Head(rows).data \o Flatten(Tail(rows))

Stack(rows, row_shape) == ndarray(<<Len(rows)>> \o row_shape, Flatten(rows))

\* the target holds the input's pixel plus YBase at every position
YBase == 1000

ROIShapes ==
    {<<B, H, W, C>> : B \in 1..MaxBatch, H \in 1..MaxWide, W \in 1..MaxWide,
                      C \in 1..MaxChannels}

\* random_ROI up to its loop
RandomROIEnter(X, Y, ROIs) ==
    /\ fn' = "random_ROI"
    /\ args' = [X |-> X, Y |-> Y, ROIs |-> ROIs]
    /\ IF Len(X.shape) # 4
       THEN /\ pc' = "idle"
            /\ ret' = Raise("ValueError")
            /\ locals' = NoArgs
       ELSE /\ pc' = "random_ROI_for"
            /\ ret' = None
            /\ locals' = [batch |-> X.shape[1], channels |-> X.shape[2],
                          height |-> X.shape[3], width |-> X.shape[4],
                          X_cut |-> [k \in 1..X.shape[1] |-> Uninit],
                          Y_cut |-> [k \in 1..X.shape[1] |-> Uninit],
                          i |-> 0, x_size |-> 0, y_size |-> 0, offsets |-> <<>>]

\* X_cut, Y_cut = random_ROI(X, Y, ROIs) on a batch pair of one shape
RandomROICall ==
    /\ pc = "idle"
    /\ fn = "none"
    /\ \E shape \in ROIShapes, ROIs \in Tuples(MaxROI) :
          RandomROIEnter(Image(shape, 0), Image(shape, YBase), ROIs)

\* one pass of "for i in np.arange(len(X))"; offsets keeps the draws made
RandomROIIter ==
    /\ pc = "random_ROI_for"
    /\ locals.i < args.X.shape[1]
    /\ \E x_size \in RandomInt(locals.height - (args.ROIs[1] + 1)),
          y_size \in RandomInt(locals.width - (args.ROIs[2] + 1)) :
          LET i == locals.i
              row_shape == <<args.ROIs[1], args.ROIs[2], locals.channels>>
              cx == crop_X(args.X, i, x_size, y_size, args.ROIs)
              cy == crop_Y(args.Y, i, x_size, y_size, args.ROIs)
              drawn == [locals EXCEPT !.x_size = x_size, !.y_size = y_size,
                                      !.offsets = Append(@, <<x_size, y_size>>)]
          IN  IF ~CanBroadcast(cx.shape, row_shape)
              THEN /\ locals' = drawn
                   /\ pc' = "idle"
                   /\ ret' = Raise("ValueError")
              ELSE IF ~CanBroadcast(cy.shape, row_shape)
              THEN /\ locals' = [drawn EXCEPT !.X_cut[i + 1] = BroadcastTo(cx, row_shape)]
                   /\ pc' = "idle"
                   /\ ret' = Raise("ValueError")
              ELSE /\ locals' = [drawn EXCEPT !.X_cut[i + 1] = BroadcastTo(cx, row_shape),
                                              !.Y_cut[i + 1] = BroadcastTo(cy, row_shape),
                                              !.i = i + 1]
                   /\ UNCHANGED <<pc, ret>>
    /\ UNCHANGED <<fn, args>>

\* return X_cut, Y_cut
RandomROIReturn ==
    /\ pc = "random_ROI_for"
    /\ locals.i = args.X.shape[1]
    /\ pc' = "idle"
    /\ ret' = LET row_shape == <<args.ROIs[1], args.ROIs[2], locals.channels>>
              IN  tuple(<<Stack(locals.X_cut, row_shape), Stack(locals.Y_cut, row_shape)>>)
    /\ UNCHANGED <<fn, args, locals>>

NextROI ==
    \/ RandomROICall
    \/ RandomROIIter
    \/ RandomROIReturn

SpecROI == Init /\ [][NextROI]_vars

(***************************************************************************)
(* one2many_random_ROI                                                     *)
(***************************************************************************)
\* the draws of one random_ROI call: an (x_size, y_size) pair per batch
\* element
Draws(X, ROIs) ==
    [1..X.shape[1] -> RandomInt(X.shape[3] - (ROIs[1] + 1))
                          \X RandomInt(X.shape[4] - (ROIs[2] + 1))]

\* a whole call random_ROI(X, Y, ROIs) whose loop makes the draws of the
\* sequence draws
random_ROI(X, Y, ROIs, draws) ==
    IF Len(X.shape) # 4 THEN Raise("ValueError")
    ELSE LET row_shape == <<ROIs[1], ROIs[2], X.shape[2]>>
             cx(i) == crop_X(X, i - 1, draws[i][1], draws[i][2], ROIs)
             cy(i) == crop_Y(Y, i - 1, draws[i][1], draws[i][2], ROIs)
         IN  IF \A i \in 1..X.shape[1] : /\ CanBroadcast(cx(i).shape, row_shape)
                                         /\ CanBroadcast(cy(i).shape, row_shape)
             THEN tuple(<<Stack([i \in 1..X.shape[1] |-> BroadcastTo(cx(i), row_shape)],
                                row_shape),
                          Stack([i \in 1..X.shape[1] |-> BroadcastTo(cy(i), row_shape)],
                                row_shape)>>)
             ELSE Raise("ValueError")

\* a source shape without the leading axes of length 1 that numpy drops
\* when an array is assigned to a target of fewer axes
RECURSIVE StripOnes(_, _)
StripOnes(src_shape, n) ==
    IF Len(src_shape) > n /\ Head(src_shape) = 1 THEN StripOnes(Tail(src_shape), n)
    ELSE src_shape

\* numpy's rule for X_cut[i] = src with src of any number of axes
CanAssign(src_shape, dst_shape) ==
    CanBroadcast(StripOnes(src_shape, Len(dst_shape)), dst_shape)

AssignTo(src, dst_shape) ==
    BroadcastTo(ndarray(StripOnes(src.shape, Len(dst_shape)), src.data), dst_shape)

\* one2many_random_ROI up to its loop
One2ManyEnter(X, Y, datasize, ROIs) ==
    /\ fn' = "one2many_random_ROI"
    /\ args' = [X |-> X, Y |-> Y, datasize |-> datasize, ROIs |-> ROIs]
    /\ IF Len(X.shape) # 4
       THEN /\ pc' = "idle"
            /\ ret' = Raise("ValueError")
            /\ locals' = NoArgs
       ELSE /\ pc' = "one2many_random_ROI_for"
            /\ ret' = None
            /\ locals' = [batch |-> X.shape[1], channels |-> X.shape[2],
                          height |-> X.shape[3], width |-> X.shape[4],
                          X_cut |-> [k \in 1..datasize |-> Uninit],
                          Y_cut |-> [k \in 1..datasize |-> Uninit],
                          i |-> 0, calls |-> 0, draws |-> <<>>]

\* X_cut, Y_cut = one2many_random_ROI(X, Y, datasize, ROIs) on a pair of one
\* shape
One2ManyCall ==
    /\ pc = "idle"
    /\ fn = "none"
    /\ \E shape \in ROIShapes, datasize \in 0..MaxData, ROIs \in Tuples(MaxROI) :
          One2ManyEnter(Image(shape, 0), Image(shape, YBase), datasize, ROIs)

\* one pass of "for i in np.arange(datasize)": a whole random_ROI call and
\* the assignment of its two results; calls counts the calls made, draws
\* keeps their draws
One2ManyIter ==
    /\ pc = "one2many_random_ROI_for"
    /\ locals.i < args.datasize
    /\ \E draws \in Draws(args.X, args.ROIs) :
          LET i == locals.i
              row_shape == <<args.ROIs[1], args.ROIs[2], locals.channels>>
              r == random_ROI(args.X, args.Y, args.ROIs, draws)
              called == [locals EXCEPT !.calls = @ + 1, !.draws = Append(@, draws)]
          IN  IF r.kind = "raise"
              THEN /\ locals' = called
                   /\ pc' = "idle"
                   /\ ret' = r
              ELSE IF ~CanAssign(r.data[1].shape, row_shape)
              THEN /\ locals' = called
                   /\ pc' = "idle"
                   /\ ret' = Raise("ValueError")
              ELSE IF ~CanAssign(r.data[2].shape, row_shape)
              THEN /\ locals' = [called EXCEPT !.X_cut[i + 1] = AssignTo(r.data[1], row_shape)]
                   /\ pc' = "idle"
                   /\ ret' = Raise("ValueError")
              ELSE /\ locals' = [called EXCEPT !.X_cut[i + 1] = AssignTo(r.data[1], row_shape),
                                               !.Y_cut[i + 1] = AssignTo(r.data[2], row_shape),
                                               !.i = i + 1]
                   /\ UNCHANGED <<pc, ret>>
    /\ UNCHANGED <<fn, args>>

\* return X_cut, Y_cut
One2ManyReturn ==
    /\ pc = "one2many_random_ROI_for"
    /\ locals.i = args.datasize
    /\ pc' = "idle"
    /\ ret' = LET row_shape == <<args.ROIs[1], args.ROIs[2], locals.channels>>
              IN  tuple(<<Stack(locals.X_cut, row_shape), Stack(locals.Y_cut, row_shape)>>)
    /\ UNCHANGED <<fn, args, locals>>

NextOne2Many ==
    \/ One2ManyCall
    \/ One2ManyIter
    \/ One2ManyReturn

SpecOne2Many == Init /\ [][NextOne2Many]_vars

(***************************************************************************)
(* run_train: the cross-validation loop of train.py                        *)
(***************************************************************************)
\* a whole call k_fold(dataset, n_splits, seed, train_size) whose loop draws
\* the permutations of the sequence perms
k_fold(dataset, n_splits, seed, train_size, perms) ==
    IF dataset.task = "classification" THEN Raise("NameError")
    ELSE IF dataset.task = "segmentation"
    THEN list([n \in 1..n_splits |->
                 FoldPair(perms[n], split_idx(dataset.len, train_size))])
    ELSE list(<<>>)

\* an entry of the record of calls that run_train makes; k_iter is -1
\* outside the loop
Event(ev, k_iter, indices) == [ev |-> ev, k_iter |-> k_iter, indices |-> indices]

\* an enumeration that counts from 1
enumerate_from1(idxs_kfold, n) ==
    [k_iter |-> n + 1, train_indices |-> idxs_kfold.data[n + 1][1],
     valid_indices |-> idxs_kfold.data[n + 1][2]]

\* item n (from 0) of enumerate(idxs_kfold)
enumerate(idxs_kfold, n) ==
    [k_iter |-> n, train_indices |-> idxs_kfold.data[n + 1][1],
     valid_indices |-> idxs_kfold.data[n + 1][2]]

TrainDatasets == {[task |-> t, len |-> l] : t \in Tasks, l \in 0..MaxTrainLen}

\* model = run_train(args), up to the seeding
RunTrainCall ==
    /\ pc = "idle"
    /\ fn = "none"
    /\ \E dataset \in TrainDatasets, n_splits \in 0..MaxFolds, seed \in 0..MaxSeed,
          train_size \in TrainSizes, freeze_processor \in BOOLEAN,
          freeze_classifier \in BOOLEAN, adv_training \in BOOLEAN,
          processing_mode \in {"parametrized", "static"} :
          args' = [dataset |-> dataset, n_splits |-> n_splits, seed |-> seed,
                   train_size |-> train_size, processing_mode |-> processing_mode,
                   freeze_processor |-> freeze_processor,
                   freeze_classifier |-> freeze_classifier,
                   adv_training |-> adv_training]
    /\ fn' = "run_train"
    /\ pc' = "run_train_seed_everything"
    /\ locals' = [trace |-> <<>>, idxs_kfold |-> None, n |-> 0, k_iter |-> 0,
                  train_indices |-> <<>>, valid_indices |-> <<>>, model |-> None]
    /\ ret' = None

\* pl.seed_everything(args.seed)
SeedEverything ==
    /\ pc = "run_train_seed_everything"
    /\ pc' = "run_train_k_fold"
    /\ locals' = [locals EXCEPT !.trace = Append(@, Event("seed_everything", -1, <<>>))]
    /\ UNCHANGED <<fn, args, ret>>

\* idxs_kfold = k_fold(dataset, n_splits=..., seed=..., train_size=...)
CallKFold ==
    /\ pc = "run_train_k_fold"
    /\ \E perms \in [1..args.n_splits -> permutation(args.dataset.len)] :
          LET r == k_fold(args.dataset, args.n_splits, args.seed, args.train_size, perms)
              called == [locals EXCEPT !.trace = Append(@, Event("k_fold", -1, <<>>))]
          IN  IF r.kind = "raise"
              THEN /\ locals' = called
                   /\ pc' = "idle"
                   /\ ret' = r
              ELSE /\ locals' = [called EXCEPT !.idxs_kfold = r]
                   /\ pc' = "run_train_parent_run"
                   /\ UNCHANGED ret
    /\ UNCHANGED <<fn, args>>

\* with mlflow.start_run(run_name=args.run_name) as parent_run:
StartParentRun ==
    /\ pc = "run_train_parent_run"
    /\ pc' = "run_train_for"
    /\ locals' = [locals EXCEPT !.trace = Append(@, Event("parent_run_start", -1, <<>>))]
    /\ UNCHANGED <<fn, args, ret>>

\* the next item of "for k_iter, (train_indices, valid_indices) in
\* enumerate(idxs_kfold)" and the set-up of its model and loaders; a failed
\* assert leaves the parent run
FoldSetup ==
    /\ pc = "run_train_for"
    /\ locals.n < Len(locals.idxs_kfold.data)
    /\ LET item == enumerate(locals.idxs_kfold, locals.n)
           bound == [locals EXCEPT !.k_iter = item.k_iter,
                                   !.train_indices = item.train_indices,
                                   !.valid_indices = item.valid_indices]
       IN  IF \/ args.freeze_processor /\ args.freeze_classifier
              \/ args.adv_training /\ args.processing_mode # "parametrized"
              \/ args.adv_training /\ ~args.freeze_classifier
              \/ args.adv_training /\ args.freeze_processor
           THEN /\ locals' = [bound EXCEPT !.trace =
                                  Append(@, Event("parent_run_end", -1, <<>>))]
                /\ pc' = "idle"
                /\ ret' = Raise("AssertionError")
           ELSE /\ locals' = [bound EXCEPT !.model =
                                  [kind |-> "LitModel", shape |-> <<>>,
                                   data |-> <<item.k_iter>>, exc |-> ""]]
                /\ pc' = "run_train_child_run"
                /\ UNCHANGED ret
    /\ UNCHANGED <<fn, args>>

\* with mlflow.start_run(run_name=f"{args.run_name}_{k_iter}", nested=True)
StartChildRun ==
    /\ pc = "run_train_child_run"
    /\ pc' = "run_train_fit"
    /\ locals' = [locals EXCEPT !.trace =
                     Append(@, Event("child_run_start", locals.k_iter,
                                     <<locals.train_indices, locals.valid_indices>>))]
    /\ UNCHANGED <<fn, args, ret>>

\* t = trainer.fit(model, train_dataloader=..., val_dataloaders=...) is
\* entered
FitCall ==
    /\ pc = "run_train_fit"
    /\ pc' = "run_train_fitting"
    /\ locals' = [locals EXCEPT !.trace =
                     Append(@, Event("fit_call", locals.k_iter,
                                     <<locals.train_indices, locals.valid_indices>>))]
    /\ UNCHANGED <<fn, args, ret>>

\* trainer.fit returns, the child run ends and the loop goes on
FitReturn ==
    /\ pc = "run_train_fitting"
    /\ pc' = "run_train_for"
    /\ locals' = [locals EXCEPT
                     !.trace = @ \o <<Event("fit_return", locals.k_iter,
                                            <<locals.train_indices, locals.valid_indices>>),
                                      Event("child_run_end", locals.k_iter,
                                            <<locals.train_indices, locals.valid_indices>>)>>,
                     !.n = @ + 1]
    /\ UNCHANGED <<fn, args, ret>>

\* the loop is exhausted: the parent run ends and run_train returns model,
\* a local that no pass of the loop has bound when there was no fold
EndParentRun ==
    /\ pc = "run_train_for"
    /\ locals.n = Len(locals.idxs_kfold.data)
    /\ pc' = "idle"
    /\ locals' = [locals EXCEPT !.trace = Append(@, Event("parent_run_end", -1, <<>>))]
    /\ ret' = IF locals.model.kind = "None" THEN Raise("UnboundLocalError")
              ELSE locals.model
    /\ UNCHANGED <<fn, args>>

NextTrain ==
    \/ RunTrainCall
    \/ SeedEverything
    \/ CallKFold
    \/ StartParentRun
    \/ FoldSetup
    \/ StartChildRun
    \/ FitCall
    \/ FitReturn
    \/ EndParentRun

SpecTrain == Init /\ [][NextTrain]_vars

Next ==
    NextTiling \/ NextSplitArgs \/ NextKFoldTwice \/ NextROI \/ NextOne2Many \/ NextTrain

Spec == Init /\ [][Next]_vars

(***************************************************************************)
(* Properties of the tiling and reassembly engines.                        *)
(***************************************************************************)
\* the image of a round trip, in the (Channels, Height, Width) layout of
\* join_blocks' result
ChannelFirst(image) ==
    IF Len(image.shape) = 2
    THEN tensor(<<1>> \o image.shape, image.data)
    ELSE LET shp == <<image.shape[3], image.shape[1], image.shape[2]>>
             sst == Strides(shp)
             ist == Strides(image.shape)
         IN  tensor(shp, [p \in 1..Prod(shp) |->
                 LET ix == Unravel(p - 1, shp, sst)
                 IN  At(image, ist, <<ix[2], ix[3], ix[1]>>)])

\* join_blocks was applied to the blocks of a non-overlapping tiling of an
\* image whose height and width are multiples of the block size
RoundTripCase ==
    /\ fn = "join_blocks"
    /\ args.image.kind = "ndarray"
    /\ args.step = args.ROIs
    /\ args.image.shape[1] % args.ROIs[1] = 0
    /\ args.image.shape[2] % args.ROIs[2] = 0

SingleImage(image) ==
    \/ Len(image.shape) = 2
    \/ Len(image.shape) = 3 /\ image.shape[3] <= 3

Float32Exact(image) == \A p \in 1..Len(image.data) : Float32(image.data[p]) = image.data[p]

Split2D == fn = "split_img" /\ Len(args.imgs.shape) = 2

\* floor((H-h)/sh + 1) * floor((W-w)/sw + 1)
BlockCount(shape, ROIs, step) ==
    (((shape[1] - ROIs[1]) \div step[1]) + 1) * (((shape[2] - ROIs[2]) \div step[2]) + 1)

RasterPixel(imgs, ROIs, step, k, ix) ==
    LET n == Len(imgs.shape)
        stack == n = 3 /\ imgs.shape[3] > 3
        H == IF n = 4 \/ stack THEN imgs.shape[2] ELSE imgs.shape[1]
        W == IF n = 4 \/ stack THEN imgs.shape[3] ELSE imgs.shape[2]
        nrows == ((H - ROIs[1]) \div step[1]) + 1
        ncols == ((W - ROIs[2]) \div step[2]) + 1
        b == k \div (nrows * ncols)
        q == k % (nrows * ncols)
        row == (q \div ncols) * step[1] + ix[1]
        col == (q % ncols) * step[2] + ix[2]
        ist == Strides(imgs.shape)
    IN  IF n = 2 THEN At(imgs, ist, <<row, col>>)
        ELSE IF stack THEN At(imgs, ist, <<b, row, col>>)
        ELSE IF n = 3 THEN At(imgs, ist, <<row, col, ix[3]>>)
        ELSE At(imgs, ist, <<b, row, col, ix[3]>>)

\* C3: the k-th block returned by split_img is the window whose top-left
\* corner is at row (k div ncols)*step[0] and column (k mod ncols)*step[1]
\* of its source image, for any step; in a 4-D batch all blocks of batch
\* element b precede those of element b+1.
C3_RasterOrder ==
    (fn = "split_img" /\ ret.kind = "ndarray")
        => \A p \in 1..Len(ret.data) :
              LET ix == Unravel(p - 1, ret.shape, Strides(ret.shape))
              IN  ret.data[p] = RasterPixel(args.imgs, args.ROIs, args.step,
                                            ix[1], Tail(ix))

C3_Witness ==
    /\ fn = "split_img"
    /\ args.imgs.shape = <<2, 3, 3, 1>>
    /\ args.ROIs = <<2, 2>>
    /\ args.step = <<1, 1>>
    /\ ret.shape = <<8, 2, 2, 1>>

\* join_blocks was called with N == rows * columns blocks
JoinCase ==
    /\ fn = "join_blocks"
    /\ args.splitted.kind = "tensor"
    /\ args.splitted.shape[1] = (args.final_shape[1] \div args.splitted.shape[3])
                                * (args.final_shape[2] \div args.splitted.shape[4])

\* block number r*columns + c lies at rows [r*bh, (r+1)*bh) and columns
\* [c*bw, (c+1)*bw) of the result, which holds single-precision values
BlocksInPlace ==
    LET channels == args.splitted.shape[2]
        bh == args.splitted.shape[3]
        bw == args.splitted.shape[4]
        rows == args.final_shape[1] \div bh
        columns == args.final_shape[2] \div bw
    IN  \A r \in 0..(rows - 1), c \in 0..(columns - 1), ch \in 0..(channels - 1),
           a \in 0..(bh - 1), b \in 0..(bw - 1) :
           At(ret, Strides(ret.shape), <<ch, r * bh + a, c * bw + b>>)
              = Float32(At(args.splitted, Strides(args.splitted.shape),
                           <<r * columns + c, ch, a, b>>))

\* C4 as stated: given N == rows*columns blocks of shape (channels,bh,bw)
\* and any final shape (FH,FW), join_blocks returns an array of shape
\* (channels,FH,FW) holding block r*columns + c at rows [r*bh,(r+1)*bh)
\* and columns [c*bw,(c+1)*bw).
C4_LayoutAnyShape ==
    JoinCase => /\ ret.kind = "tensor"
                /\ ret.shape = <<args.splitted.shape[2], args.final_shape[1],
                                 args.final_shape[2]>>
                /\ BlocksInPlace

\* C4 amended: given N == rows*columns blocks of shape (channels,bh,bw) and
\* a final shape (FH,FW) with FH a positive multiple of bh and FW a
\* positive multiple of bw, join_blocks returns an array of shape
\* (channels,FH,FW) holding block r*columns + c at rows [r*bh,(r+1)*bh)
\* and columns [c*bw,(c+1)*bw).
C4_Layout ==
    (/\ JoinCase
     /\ args.final_shape[1] > 0 /\ args.final_shape[1] % args.splitted.shape[3] = 0
     /\ args.final_shape[2] > 0 /\ args.final_shape[2] % args.splitted.shape[4] = 0)
        => /\ ret.kind = "tensor"
           /\ ret.shape = <<args.splitted.shape[2], args.final_shape[1],
                            args.final_shape[2]>>
           /\ BlocksInPlace

C4_Witness ==
    /\ JoinCase
    /\ args.image.kind = "None"
    /\ args.splitted.shape = <<4, 2, 2, 2>>
    /\ args.final_shape = <<4, 4>>
    /\ ret.shape = <<2, 4, 4>>

(***************************************************************************)
(* Properties of the cross-validation splitter.                            *)
(***************************************************************************)
Elems(q) == {q[i] : i \in 1..Len(q)}

\* the fold pairs k_fold holds so far, or has returned
Folds == IF fn = "k_fold" THEN locals.idxs ELSE <<>>

Returned(f) == fn = f /\ pc = "idle"

\* C5: for every (train, validation) pair returned by k_fold, the two index
\* sets share no index, every index lies in [0, len(dataset)), and
\* len(train) + len(validation) <= len(dataset).
C5_FoldDisjoint ==
    \A k \in 1..Len(Folds) :
       LET train == Folds[k][1]
           valid == Folds[k][2]
       IN  /\ Elems(train) \cap Elems(valid) = {}
           /\ Elems(train) \cup Elems(valid) \subseteq 0..(args.dataset.len - 1)
           /\ Len(train) + Len(valid) <= args.dataset.len

C5_Witness ==
    /\ Returned("k_fold")
    /\ ret.kind = "list"
    /\ Len(ret.data) = 2
    /\ ret.data = locals.idxs
    /\ \A k \in 1..2 : Len(ret.data[k][1]) > 0 /\ Len(ret.data[k][2]) > 0

\* C6: k_fold returns exactly n_splits (train, validation) pairs, for a
\* dataset whose task is 'classification' and for a dataset with any
\* other task value.
C6_FoldCount ==
    Returned("k_fold") => /\ ret.kind = "list"
                          /\ Len(ret.data) = args.n_splits

\* C7: on the segmentation path each fold is built from a fresh permutation
\* of all indices 0..len(dataset)-1 cut at floor(len(dataset) * train_size):
\* the train part has exactly that many indices, the validation part the
\* rest, and together they hold every dataset index exactly once.
C7_SegmentationSplit ==
    (fn = "k_fold" /\ locals.n > 0)
       => LET len == args.dataset.len
              train == locals.idxs[locals.n][1]
              valid == locals.idxs[locals.n][2]
              cut == (len * args.train_size.num) \div args.train_size.den
          IN  /\ args.dataset.task = "segmentation"
              /\ Len(locals.idxs) = locals.n
              /\ train \o valid = locals.indices
              /\ Len(train) = cut
              /\ Len(valid) = len - cut
              /\ \A x \in 0..(len - 1) :
                    Cardinality({i \in 1..len : (train \o valid)[i] = x}) = 1

\* two folds of one call cut from different permutations
C7_Witness ==
    /\ fn = "k_fold"
    /\ args.dataset.len = 3
    /\ args.train_size.num * 2 = args.train_size.den
    /\ locals.n = 2
    /\ Len(locals.idxs[2][1]) = 1
    /\ Len(locals.idxs[2][2]) = 2
    /\ locals.idxs[1] # locals.idxs[2]

\* C8: two invocations of k_fold on a classification dataset with identical
\* seed, dataset, n_splits and train_size both complete and return
\* identical sequences of fold index pairs.
C8_ClassificationDeterminism ==
    (/\ Returned("k_fold")
     /\ args.dataset.task = "classification"
     /\ args.prev.kind # "None")
        => /\ args.prev.kind = "list"
           /\ ret.kind = "list"
           /\ ret = args.prev

(***************************************************************************)
(* Properties of the random-ROI sampler.                                   *)
(***************************************************************************)
NonNeg(v) == IF v < 0 THEN 0 ELSE v

\* C9: for batches of shape (B,H,W,C) and a crop size (h,w) with h <= H and
\* w <= W, random_ROI draws for every batch element a row offset in
\* [0, H-h-1] and a column offset in [0, W-w-1] (offset 0 where the crop
\* fills the axis), so that the crop lies inside the source along both
\* spatial axes, and each returned crop has shape (h,w,C).
C9_ROIBounds ==
    (/\ fn = "random_ROI"
     /\ args.ROIs[1] <= args.X.shape[2]
     /\ args.ROIs[2] <= args.X.shape[3])
        => LET H == args.X.shape[2]
               W == args.X.shape[3]
               h == args.ROIs[1]
               w == args.ROIs[2]
           IN  /\ \A k \in 1..Len(locals.offsets) :
                     /\ 0 <= locals.offsets[k][1]
                     /\ locals.offsets[k][1] <= NonNeg(H - h - 1)
                     /\ 0 <= locals.offsets[k][2]
                     /\ locals.offsets[k][2] <= NonNeg(W - w - 1)
                     /\ locals.offsets[k][1] + h <= H
                     /\ locals.offsets[k][2] + w <= W
               /\ pc = "idle"
                     => /\ ret.kind = "tuple"
                        /\ ret.data[1].shape = <<args.X.shape[1], h, w, args.X.shape[4]>>
                        /\ ret.data[2].shape = <<args.X.shape[1], h, w, args.X.shape[4]>>

\* C10: in every call of random_ROI and for every batch index i, the crop
\* returned for X[i] and the crop returned for Y[i] are taken at the same
\* (row, column) offset and have the same size.  Y holds X's pixel plus
\* YBase at every position and X's pixels are pairwise distinct, so two
\* crops are co-located exactly when they differ by YBase everywhere.
C10_SpatialCorrespondence ==
    (fn = "random_ROI" /\ pc = "idle" /\ ret.kind = "tuple")
        => /\ ret.data[1].shape = ret.data[2].shape
           /\ Len(ret.data[1].data) = Len(ret.data[2].data)
           /\ \A p \in 1..Len(ret.data[1].data) :
                 ret.data[2].data[p] = ret.data[1].data[p] + YBase

\* two batch elements cropped at different offsets, drawn per element
C10_Witness ==
    /\ fn = "random_ROI"
    /\ pc = "idle"
    /\ ret.kind = "tuple"
    /\ args.X.shape[1] = 2
    /\ Len(ret.data[1].data) > 0
    /\ locals.offsets[1] # locals.offsets[2]

(***************************************************************************)
(* C11: argument arity                                                     *)
(***************************************************************************)
\* the block-size or the step argument does not have exactly 2 elements
WrongArity == Len(args.ROIs) # 2 \/ Len(args.step) # 2

\* C11: whenever the block-size tuple or the step tuple passed to split_img
\* does not have exactly 2 elements (fewer or more), split_img does not
\* raise and does not tile: it returns no block sequence (None).
C11_ArityRejected ==
    (fn = "split_img" /\ WrongArity) => ret = None

(***************************************************************************)
(* C12: block size larger than the source                                  *)
(***************************************************************************)
\* the two axes of the input that split_img slides the block over
SpatialH(shape) ==
    IF Len(shape) = 4 \/ (Len(shape) = 3 /\ shape[3] > 3) THEN shape[2] ELSE shape[1]

SpatialW(shape) ==
    IF Len(shape) = 4 \/ (Len(shape) = 3 /\ shape[3] > 3) THEN shape[3] ELSE shape[2]

\* split_img was called with a block larger than the source along a
\* spatial axis
Oversize ==
    /\ fn = "split_img"
    /\ \/ args.ROIs[1] > SpatialH(args.imgs.shape)
       \/ args.ROIs[2] > SpatialW(args.imgs.shape)

Positions(n, roi, st) == ((n - roi) \div st) + 1

\* the blocks are those of one image (H,W,C): block k is the h x w window
\* at window row k div ncols and window column k mod ncols, with all C
\* channels
TiledAsMultiChannel(imgs, ROIs, step, blocks) ==
    LET H == imgs.shape[1]
        W == imgs.shape[2]
        C == imgs.shape[3]
        nrows == Positions(H, ROIs[1], step[1])
        ncols == Positions(W, ROIs[2], step[2])
        ist == Strides(imgs.shape)
        bst == Strides(blocks.shape)
    IN  /\ blocks.kind = "ndarray"
        /\ blocks.shape = <<nrows * ncols, ROIs[1], ROIs[2], C>>
        /\ \A k \in 0..(nrows * ncols - 1), i \in 0..(ROIs[1] - 1),
              j \in 0..(ROIs[2] - 1), c \in 0..(C - 1) :
              At(blocks, bst, <<k, i, j, c>>)
                  = At(imgs, ist, <<(k \div ncols) * step[1] + i,
                                    (k % ncols) * step[2] + j, c>>)

\* the blocks are those of a stack (N,H,W) of single-channel images: the
\* h x w windows of image 0 in raster order, then those of image 1, ...
TiledAsStack(imgs, ROIs, step, blocks) ==
    LET N == imgs.shape[1]
        H == imgs.shape[2]
        W == imgs.shape[3]
        nrows == Positions(H, ROIs[1], step[1])
        ncols == Positions(W, ROIs[2], step[2])
        ist == Strides(imgs.shape)
        bst == Strides(blocks.shape)
    IN  /\ blocks.kind = "ndarray"
        /\ blocks.shape = <<N * nrows * ncols, ROIs[1], ROIs[2]>>
        /\ \A n \in 0..(N - 1), k \in 0..(nrows * ncols - 1),
              i \in 0..(ROIs[1] - 1), j \in 0..(ROIs[2] - 1) :
              At(blocks, bst, <<n * nrows * ncols + k, i, j>>)
                  = At(imgs, ist, <<n, (k \div ncols) * step[1] + i,
                                    (k % ncols) * step[2] + j>>)

\* split_img was called on a 3-D input
Split3D == fn = "split_img" /\ Len(args.imgs.shape) = 3

\* C13: a 3-D input whose last axis (the channel count) is at most 3 is
\* tiled as one multi-channel image (H,W,C), the windows sliding over H and
\* W only and every block of shape (h,w,C); a 3-D input whose last axis is
\* above 3 is tiled as a stack (N,H,W) of single-channel images, every
\* block of shape (h,w); in both cases for a block that fits the image.
C13_ShapeInterpretation ==
    Split3D =>
        IF args.imgs.shape[3] <= 3
        THEN (args.ROIs[1] <= args.imgs.shape[1] /\ args.ROIs[2] <= args.imgs.shape[2])
                 => TiledAsMultiChannel(args.imgs, args.ROIs, args.step, ret)
        ELSE (args.ROIs[1] <= args.imgs.shape[2] /\ args.ROIs[2] <= args.imgs.shape[3])
                 => TiledAsStack(args.imgs, args.ROIs, args.step, ret)

C13_Witness ==
    /\ Split3D
    /\ args.imgs.shape = <<2, 3, 4>>
    /\ args.ROIs = <<2, 2>>
    /\ args.step = <<1, 1>>
    /\ ret.kind = "ndarray"
    /\ ret.shape = <<12, 2, 2>>

(***************************************************************************)
(* C14: one2many_random_ROI                                                *)
(***************************************************************************)
\* one2many_random_ROI has ended on a pair of shape (1,H,W,C) with a region
\* that fits the image
One2ManyCase ==
    /\ fn = "one2many_random_ROI"
    /\ pc = "idle"
    /\ args.X.shape[1] = 1
    /\ args.ROIs[1] <= args.X.shape[2]
    /\ args.ROIs[2] <= args.X.shape[3]

\* C14: one2many_random_ROI on a pair of shape (1,H,W,C) calls random_ROI
\* exactly datasize times and returns datasize input crops and datasize
\* target crops of shape (ROIs[0], ROIs[1], C), the i-th target crop
\* covering the region of the i-th input crop.
C14_One2ManyCrops ==
    One2ManyCase =>
        LET crops == <<args.datasize, args.ROIs[1], args.ROIs[2], args.X.shape[4]>>
        IN  /\ ret.kind = "tuple"
            /\ locals.calls = args.datasize
            /\ ret.data[1].shape = crops
            /\ ret.data[2].shape = crops
            /\ \A p \in 1..Prod(crops) : ret.data[2].data[p] = ret.data[1].data[p] + YBase

(***************************************************************************)
(* C15: order of the training loop                                         *)
(***************************************************************************)
IsPrefix(s, t) == Len(s) <= Len(t) /\ \A i \in 1..Len(s) : s[i] = t[i]

\* the calls of the passes k, k+1, ... of the loop over the fold pairs:
\* per pair one child run around one fit, under the pair's position
RECURSIVE FoldEvents(_, _)
FoldEvents(folds, k) ==
    IF k >= Len(folds) THEN <<>>
    ELSE <<Event("child_run_start", k, folds[k + 1]),
           Event("fit_call", k, folds[k + 1]),
           Event("fit_return", k, folds[k + 1]),
           Event("child_run_end", k, folds[k + 1])>> \o FoldEvents(folds, k + 1)

\* the fold pairs that k_fold returned to run_train
ReturnedFolds == IF locals.idxs_kfold.kind = "list" THEN locals.idxs_kfold.data ELSE <<>>

\* the calls of a run_train invocation that gets through all its folds
TrainPlan ==
    <<Event("seed_everything", -1, <<>>), Event("k_fold", -1, <<>>),
      Event("parent_run_start", -1, <<>>)>> \o FoldEvents(ReturnedFolds, 0)

\* the calls made so far apart from the end of the parent run
TrainBody ==
    IF locals.trace # <<>> /\ locals.trace[Len(locals.trace)].ev = "parent_run_end"
    THEN SubSeq(locals.trace, 1, Len(locals.trace) - 1)
    ELSE locals.trace

\* run_train has gone through the whole loop
LoopExhausted ==
    /\ fn = "run_train"
    /\ pc = "idle"
    /\ ret.exc \notin {"NameError", "AssertionError"}

====
